---- MODULE Spec2Model ----
(***************************************************************************)
(* The cache-with-stale-fallback layer of app.py: _get_cached_or_fetch and *)
(* _fetch_and_cache, the two fetch operations behind them, the module's    *)
(* client setup and the two route handlers.  Every request is a thread of  *)
(* the server; a step of a request is one file-system call, one clock      *)
(* reading or one call of the fetch operation, so that requests interleave *)
(* the way threads do.                                                     *)
(***************************************************************************)
EXTENDS Integers, Sequences, FiniteSets, TLC

\* ------------------------------------------------------------- constants
CACHE_DURATION_SECONDS == 86400

\* Bounds of the model: how far the clock advances, how many distinct
\* upstream answers there are.
MaxTicks == 1
MaxVal == 2

\* The request threads and the cache keys of the two routes.
Procs == {"r1", "r2"}
Keys == {"alpaca_portfolio", "fred_GDP"}

\* The clock advances by one second less than the cache duration or by the
\* cache duration, up to MaxTicks cache durations.
TickSteps == {CACHE_DURATION_SECONDS - 1, CACHE_DURATION_SECONDS}
MaxNow == MaxTicks * CACHE_DURATION_SECONDS

VARIABLES
    now,          \* the wall clock, in seconds
    served,       \* the cache keys that requests of this run name
    api,          \* the Alpaca client is initialised (not None)
    fred,         \* the FRED client is initialised (not None)
    file,         \* cache files: key -> [exists, mtime, content]
    pc,           \* the line of app.py a request is at
    key,          \* cache_key of the request
    fallback,     \* the fallback argument of the request
    file_mod_time,\* local of _get_cached_or_fetch (lines 71-72), -1 when not live
    data,         \* local of _fetch_and_cache (line 59)
    exc,          \* the exception caught at line 79, "" when none
    result,       \* what _get_cached_or_fetch returned or raised
    fetchedAt,    \* history: the clock when the request called fetch_function
    wroteAt,      \* history: the clock when the request's json.dump ended
    lastPut,      \* history: key -> the data the latest completed put returned
    recentFetchAt,\* history: key -> the clock of the latest fetch_function call
                  \* of the last CACHE_DURATION_SECONDS, -1 when none
    mpc,          \* the line of _calculate_advanced_metrics the portfolio
                  \* fetch under way is at; once it has returned, the return
                  \* statement it left by
    snapshot,     \* _fetch_alpaca_portfolio: account, positions and bars as
                  \* they will go into the dict of line 212
    positions_data,      \* argument of _calculate_advanced_metrics
    bars_data,           \* argument of _calculate_advanced_metrics
    portfolio_prices,    \* local (lines 95-104)
    portfolio_returns,   \* local (line 117)
    spy_returns,         \* local (lines 124, 127)
    aligned_returns,     \* local (line 130)
    aligned_spy_returns, \* local (line 130)
    drawdowns,           \* locals max_drawdown and current_drawdown (163-164)
    advanced_metrics,    \* what _calculate_advanced_metrics returned (line 210)
    benchmark            \* history: how the api.get_bars call of line 123 ended

\* The state of the cache layer and of the metrics calculation.
cache == <<now, served, api, fred, file, pc, key, fallback, file_mod_time,
           data, exc, result, fetchedAt, wroteAt, lastPut, recentFetchAt>>

engine == <<mpc, snapshot, positions_data, bars_data, portfolio_prices,
            portfolio_returns, spy_returns, aligned_returns,
            aligned_spy_returns, drawdowns, advanced_metrics, benchmark>>

vars == <<now, served, api, fred, file, pc, key, fallback, file_mod_time,
          data, exc, result, fetchedAt, wroteAt, lastPut, recentFetchAt,
          mpc, snapshot, positions_data, bars_data, portfolio_prices,
          portfolio_returns, spy_returns, aligned_returns,
          aligned_spy_returns, drawdowns, advanced_metrics, benchmark>>

\* ----------------------------------------------------------- Python values
\* A JSON-serialisable Python value is a dict (items: key, value, key,
\* value, ...) or a list (items: the elements); every key and every leaf
\* is a string.
NoValue == [type |-> "none", items |-> <<>>]
PyDict(items) == [type |-> "dict", items |-> items]
PyList(items) == [type |-> "list", items |-> items]

Vals == {ToString(i) : i \in 1..MaxVal}

\* What _fetch_alpaca_portfolio returns: a dict (one of its entries here).
PortfolioResults == {PyDict(<<"account", v>>) : v \in Vals}

\* What _fetch_fred_series returns: the list of observations.
FredResults == {PyList(<<v>>) : v \in Vals}

\* key in data, for a dict (its keys) and for a list (its elements).
PyIn(k, v) ==
    IF v.type = "dict"
    THEN \E i \in 1..Len(v.items) : i % 2 = 1 /\ v.items[i] = k
    ELSE \E i \in 1..Len(v.items) : v.items[i] = k

\* json.dump: the text of a value, as the sequence of chunks the encoder
\* writes.
JsonDumpDropsLast(v) ==
    IF v.type = "dict"
    THEN <<"{">> \o SubSeq(v.items, 1, Len(v.items) - 2) \o <<"}">>
    ELSE <<"[">> \o SubSeq(v.items, 1, Len(v.items) - 1) \o <<"]">>

JsonDump(v) ==
    IF v.type = "dict"
    THEN <<"{">> \o v.items \o <<"}">>
    ELSE <<"[">> \o v.items \o <<"]">>

Brackets == {"{", "}", "[", "]"}

\* json.load accepts a text: an opening bracket, leaves, the matching
\* closing bracket (and for a dict an even number of leaves).
JsonValid(text) ==
    /\ Len(text) >= 2
    /\ \A i \in 2..(Len(text) - 1) : text[i] \notin Brackets
    /\ \/ text[1] = "{" /\ text[Len(text)] = "}" /\ (Len(text) - 2) % 2 = 0
       \/ text[1] = "[" /\ text[Len(text)] = "]"

\* json.load of a valid text.
JsonLoad(text) ==
    IF text[1] = "{"
    THEN PyDict(SubSeq(text, 2, Len(text) - 1))
    ELSE PyList(SubSeq(text, 2, Len(text) - 1))

\* ------------------------------------------------------------ the results
NoResult == [kind |-> "none", val |-> NoValue, exc |-> ""]
Return(v) == [kind |-> "return", val |-> v, exc |-> ""]
Raise(e) == [kind |-> "raise", val |-> NoValue, exc |-> e]

\* Line 84: the dict returned when nothing could be served.
ErrorMessage(k) == "Failed to fetch data for " \o k \o " and no cache was available."

ErrorResultOtherKey(k) == PyDict(<<"message", ErrorMessage(k)>>)

ErrorResult(k) == PyDict(<<"error", ErrorMessage(k)>>)

\* Lines 217-218 and 228-229: the status of the response; an exception
\* that leaves the view function is answered with 500 by Flask.
HttpStatus(res) ==
    IF res.kind = "raise" THEN 500
    ELSE IF PyIn("error", res.val) THEN 500 ELSE 200

\* ------------------------------------------------------------ cache files
Absent == [exists |-> FALSE, mtime |-> 0, content |-> <<>>]

\* Line 72: the entry is recent.
IsFreshOffByOne(t, mtime) == t - mtime < CACHE_DURATION_SECONDS - 1

IsFreshNever(t, mtime) == FALSE

IsFresh(t, mtime) == t - mtime < CACHE_DURATION_SECONDS

\* Line 80: the stale file is used.
UseFallbackNever(fb, exists) == FALSE

UseFallbackIgnoresFlag(fb, exists) == exists

UseFallback(fb, exists) == fb /\ exists

\* The modification time the file system gives a file written by request p.
MTimeOfFetch(p) == fetchedAt[p]

MTimeOfWrite(p) == now

\* Line 63: what _fetch_and_cache returns.
PutReturnsNone(d) == NoValue

PutReturns(d) == d

\* ----------------------------------------------------------------- floats
\* A float is <<n, d>>, the number n/d in lowest terms with d >= 0, where
\* <<1, 0>> and <<-1, 0>> are the infinities; NaN is the empty tuple.
\* Arithmetic is exact: the rounding error of the binary floats is not
\* modelled.
NaN == <<>>
IsNaN(x) == Len(x) = 0

Abs(n) == IF n < 0 THEN -n ELSE n

RECURSIVE GCD(_, _)
GCD(a, b) == IF b = 0 THEN a ELSE GCD(b, a % b)

\* n/d as a float; 0/0 is NaN.
Q(n, d) ==
    IF n = 0 /\ d = 0 THEN NaN
    ELSE LET g == GCD(Abs(n), Abs(d))
             s == IF d < 0 THEN -1 ELSE 1
         IN  <<(s * n) \div g, (s * d) \div g>>

Float(n) == <<n, 1>>

\* The four operations; a NaN operand gives NaN. The common factors are
\* taken out before the products are formed.
FAdd(x, y) ==
    IF IsNaN(x) \/ IsNaN(y) THEN NaN
    ELSE LET g == IF x[2] = 0 \/ y[2] = 0 THEN 1 ELSE GCD(x[2], y[2])
         IN  Q(x[1] * (y[2] \div g) + y[1] * (x[2] \div g), (x[2] \div g) * y[2])

FNeg(x) == IF IsNaN(x) THEN NaN ELSE <<-x[1], x[2]>>

FSub(x, y) == FAdd(x, FNeg(y))

FMul(x, y) ==
    IF IsNaN(x) \/ IsNaN(y) THEN NaN
    ELSE LET g == IF x[1] = 0 \/ y[2] = 0 THEN 1 ELSE GCD(Abs(x[1]), y[2])
             h == IF y[1] = 0 \/ x[2] = 0 THEN 1 ELSE GCD(Abs(y[1]), x[2])
         IN  Q((x[1] \div g) * (y[1] \div h), (x[2] \div h) * (y[2] \div g))

FDiv(x, y) == IF IsNaN(y) THEN NaN ELSE FMul(x, Q(y[2], y[1]))

\* Comparisons: every comparison with NaN is false, except !=.
FLt(x, y) == ~IsNaN(x) /\ ~IsNaN(y) /\ x[1] * y[2] < y[1] * x[2]
FLe(x, y) == ~IsNaN(x) /\ ~IsNaN(y) /\ x[1] * y[2] <= y[1] * x[2]
FNeqZero(x) == IsNaN(x) \/ x[1] # 0
IsNumber(x) == ~IsNaN(x) /\ x[2] # 0

RECURSIVE TenTo(_)
TenTo(k) == IF k = 0 THEN 1 ELSE 10 * TenTo(k - 1)

\* round(x, k): to k decimals, ties to even; NaN and the infinities stay.
Round(x, k) ==
    IF ~IsNumber(x) THEN x
    ELSE LET num == x[1] * TenTo(k)
             fl == num \div x[2]
             rem == num % x[2]
             r == IF 2 * rem < x[2] THEN fl
                  ELSE IF 2 * rem > x[2] THEN fl + 1
                  ELSE IF fl % 2 = 0 THEN fl ELSE fl + 1
         IN  Q(r, TenTo(k))

\* The sum of a sequence of floats.
RECURSIVE FSum(_)
FSum(xs) == IF Len(xs) = 0 THEN Float(0) ELSE FAdd(xs[1], FSum(Tail(xs)))

\* Series.mean(), Series.var() and Series.cov() (ddof = 1): NaN when there
\* are too few values.
FMean(xs) == FDiv(FSum(xs), Float(Len(xs)))

FVar(xs) ==
    IF Len(xs) < 2 THEN NaN
    ELSE LET m == FMean(xs)
         IN  FDiv(FSum([i \in 1..Len(xs) |-> FMul(FSub(xs[i], m), FSub(xs[i], m))]),
                  Float(Len(xs) - 1))

FCov(xs, ys) ==
    IF Len(xs) < 2 THEN NaN
    ELSE LET mx == FMean(xs)
             my == FMean(ys)
         IN  FDiv(FSum([i \in 1..Len(xs) |-> FMul(FSub(xs[i], mx), FSub(ys[i], my))]),
                  Float(Len(xs) - 1))

\* The values of a sequence of floats in ascending order.
RECURSIVE FSorted(_)
FSorted(xs) ==
    IF Len(xs) = 0 THEN <<>>
    ELSE LET i == CHOOSE i \in 1..Len(xs) : \A j \in 1..Len(xs) : FLe(xs[i], xs[j])
         IN  <<xs[i]>> \o FSorted([j \in 1..(Len(xs) - 1) |-> IF j < i THEN xs[j] ELSE xs[j + 1]])

\* Series.quantile(0.05), with linear interpolation between the two order
\* statistics around position 0.05 * (n - 1).
Quantile05(xs) ==
    IF Len(xs) = 0 THEN NaN
    ELSE LET s == FSorted(xs)
             lo == (Len(xs) - 1) \div 20
             frac == Q((Len(xs) - 1) % 20, 20)
         IN  IF lo + 2 > Len(xs) THEN s[lo + 1]
             ELSE FAdd(s[lo + 1], FMul(frac, FSub(s[lo + 2], s[lo + 1])))

\* What a metric is in the dict of lines 169-178, for a float and for the
\* square root of a float: "NaN", "Infinity", "0" for an exact zero and "x"
\* for any other number. round() keeps the first three, and the token of a
\* number is that of the number before it is rounded.
Token(x) ==
    IF IsNaN(x) THEN "NaN"
    ELSE IF x[2] = 0 THEN "Infinity"
    ELSE IF x[1] = 0 THEN "0" ELSE "x"

\* a / b on tokens, for b >= 0.
TokenDiv(a, b) ==
    IF a = "NaN" \/ b = "NaN" THEN "NaN"
    ELSE IF b = "0" THEN (IF a = "0" THEN "NaN" ELSE "Infinity")
    ELSE IF b = "Infinity" THEN (IF a = "Infinity" THEN "NaN" ELSE "0")
    ELSE a

\* -------------------------------------------------- the upstream's answers
\* The bound of the price histories: the trading days are 1..MaxDate.
MaxDate == 3

Dates == 1..MaxDate

\* The symbols an account holds positions in, the market value of a
\* position (negative for a short one) and the closing prices.
Symbols == <<"AAA", "BBB">>
MarketValues == {-1, 0, 1}
Prices == {1, 2}

\* The bars of a symbol with closing price h[t] on day t (0: no bar that
\* day), in the order of their days, as api.get_bars gives them.
Bars(h) ==
    SelectSeq([t \in 1..MaxDate |-> [t |-> t, c |-> h[t]]], LAMBDA b : b.c > 0)

Histories == {Bars(h) : h \in [Dates -> {0} \cup Prices]}

\* Line 191: positions_data, for an account holding the first k symbols.
PositionsData ==
    UNION {{[i \in 1..k |-> [symbol |-> Symbols[i], market_value |-> mv[i]]] :
              mv \in [1..k -> MarketValues]} : k \in 0..Len(Symbols)}

\* Lines 193-207: bars_data has an entry for every symbol of the positions
\* that has bars, and no other.
BarsData(positions) ==
    {[s \in {positions[i].symbol : i \in {j \in 1..Len(positions) : Len(hs[j]) > 0}} |->
         hs[CHOOSE i \in 1..Len(positions) : positions[i].symbol = s]] :
       hs \in [1..Len(positions) -> Histories]}

\* bars_data.get(symbol, []).
Get(bars, symbol) == IF symbol \in DOMAIN bars THEN bars[symbol] ELSE <<>>

\* ------------------------------------------------------ frames and series
\* A DataFrame is its index, its column labels and its columns, each a
\* sequence of floats as long as the index; a Series is a sequence of
\* [t, v]: the label and the value.
NoFrame == [index |-> <<>>, columns |-> <<>>, values |-> <<>>]
NoSeries == <<>>

\* The positions 1..n that satisfy Keep, in ascending order.
Where(n, Keep(_)) == SelectSeq([i \in 1..n |-> i], Keep)

SeriesValues(s) == [i \in 1..Len(s) |-> s[i].v]

RECURSIVE Concat(_)
Concat(lists) == IF Len(lists) = 0 THEN <<>> ELSE lists[1] \o Concat(Tail(lists))

RECURSIVE Uniques(_, _)
Uniques(acc, xs) ==
    IF Len(xs) = 0 THEN acc
    ELSE Uniques(IF \E i \in 1..Len(acc) : acc[i] = xs[1] THEN acc ELSE Append(acc, xs[1]),
                 Tail(xs))

\* The index pandas gives a DataFrame built from a dict of dicts: the union
\* of the dicts' keys in the order of their first appearance, dict after
\* dict (union_indexes(indexes, sort=False)); it does not sort them.
UnionIndex(lists) == Uniques(<<>>, Concat(lists))

\* Lines 95-97: pd.DataFrame({symbol: {t: c for each bar} for each symbol}).
DataFrameOf(symbols, bars) ==
    LET index == UnionIndex([i \in 1..Len(symbols) |->
                     [j \in 1..Len(Get(bars, symbols[i])) |-> Get(bars, symbols[i])[j].t]])
        Cell(hist, t) ==
            IF \E j \in 1..Len(hist) : hist[j].t = t
            THEN Float(hist[CHOOSE j \in 1..Len(hist) : hist[j].t = t].c)
            ELSE NaN
    IN  [index |-> index,
         columns |-> symbols,
         values |-> [i \in 1..Len(symbols) |->
                        [r \in 1..Len(index) |-> Cell(Get(bars, symbols[i]), index[r])]]]

\* Line 98: .ffill(), down the rows of each column.
FFillColumn(col) ==
    [r \in 1..Len(col) |->
        LET known == {j \in 1..r : ~IsNaN(col[j])}
        IN  IF known = {} THEN NaN
            ELSE col[CHOOSE j \in known : \A i \in known : i <= j]]

FFill(frame) ==
    [frame EXCEPT !.values = [i \in 1..Len(frame.columns) |-> FFillColumn(frame.values[i])]]

\* Line 101: dropna(axis=1, how='all').
DropEmptyColumns(frame) ==
    LET keep == Where(Len(frame.columns),
                          LAMBDA i : \E r \in 1..Len(frame.index) : ~IsNaN(frame.values[i][r]))
    IN  [index |-> frame.index,
         columns |-> [i \in 1..Len(keep) |-> frame.columns[keep[i]]],
         values |-> [i \in 1..Len(keep) |-> frame.values[keep[i]]]]

\* Line 103: DataFrame.empty.
IsEmpty(frame) == Len(frame.index) = 0 \/ Len(frame.columns) = 0

\* Line 107: pct_change(), row over the row before it.
PctChange(frame) ==
    [frame EXCEPT !.values = [i \in 1..Len(frame.columns) |->
        [r \in 1..Len(frame.index) |->
            IF r = 1 THEN NaN
            ELSE FSub(FDiv(frame.values[i][r], frame.values[i][r - 1]), Float(1))]]]

\* Line 107: dropna(), of the rows that have a NaN.
DropNaRows(frame) ==
    LET keep == Where(Len(frame.index),
                          LAMBDA r : \A i \in 1..Len(frame.columns) : ~IsNaN(frame.values[i][r]))
    IN  [index |-> [r \in 1..Len(keep) |-> frame.index[keep[r]]],
         columns |-> frame.columns,
         values |-> [i \in 1..Len(frame.columns) |->
                        [r \in 1..Len(keep) |-> frame.values[i][keep[r]]]]]

\* Lines 110-111: the market values of the positions whose symbol is a
\* column, and their sum.
MarketValuesOf(positions, columns) ==
    SelectSeq(positions, LAMBDA p : \E i \in 1..Len(columns) : columns[i] = p.symbol)

RECURSIVE TotalMarketValue(_)
TotalMarketValue(mvs) ==
    IF Len(mvs) = 0 THEN 0 ELSE mvs[1].market_value + TotalMarketValue(Tail(mvs))

\* Lines 114-117: (returns * weights).sum(axis=1).
PortfolioReturns(returns, mvs) ==
    LET total == TotalMarketValue(mvs)
        Weight(symbol) ==
            Q(mvs[CHOOSE j \in 1..Len(mvs) : mvs[j].symbol = symbol].market_value, total)
    IN  [r \in 1..Len(returns.index) |->
            [t |-> returns.index[r],
             v |-> FSum([i \in 1..Len(returns.columns) |->
                            FMul(returns.values[i][r], Weight(returns.columns[i]))])]]

\* Line 124: spy_bars['close'].pct_change().dropna().
SpyReturns(spy_bars) ==
    [j \in 1..(Len(spy_bars) - 1) |->
        [t |-> spy_bars[j + 1].t,
         v |-> FSub(Q(spy_bars[j + 1].c, spy_bars[j].c), Float(1))]]

\* Line 130: align(join='inner'): the labels of both, in the order of the
\* left series.
AlignLeft(left, right) ==
    SelectSeq(left, LAMBDA x : \E j \in 1..Len(right) : right[j].t = x.t)

AlignRight(left, right) ==
    LET l == AlignLeft(left, right)
    IN  [i \in 1..Len(l) |-> right[CHOOSE j \in 1..Len(right) : right[j].t = l[i].t]]

\* Line 132: too few aligned points.
InsufficientOffByOne(aligned) == Len(aligned) < 1

Insufficient(aligned) == Len(aligned) = 0 \/ Len(aligned) < 2

\* ------------------------------------------------------------ the metrics
\* Line 136: risk_free_rate = 0.05 / 252.
RiskFreeRate == Q(5, 100 * 252)

EmptyMetrics == PyDict(<<>>)

\* Line 139, as a token. std() != 0 exactly when var() != 0, and the token
\* of a standard deviation is that of its variance.
SharpeRatio(r) ==
    LET xs == SeriesValues(r)
    IN  IF FNeqZero(FVar(xs))
        THEN TokenDiv(Token(FSub(FMean(xs), RiskFreeRate)), Token(FVar(xs)))
        ELSE "0"

\* Line 142: aligned_returns[aligned_returns < 0].
DownsideReturns(r) == SelectSeq(r, LAMBDA x : FLt(x.v, Float(0)))

\* Lines 143-144, as a token.
SortinoRatio(r) ==
    LET downside_var == FVar(SeriesValues(DownsideReturns(r)))
    IN  IF FNeqZero(downside_var)
        THEN TokenDiv(Token(FSub(FMean(SeriesValues(r)), RiskFreeRate)), Token(downside_var))
        ELSE "0"

\* Lines 147-154.
Beta(r, b) ==
    IF Len(b) # 0 /\ Len(b) > 1
    THEN IF FNeqZero(FVar(SeriesValues(b)))
         THEN FDiv(FCov(SeriesValues(r), SeriesValues(b)), FVar(SeriesValues(b)))
         ELSE Float(0)
    ELSE Float(0)

Alpha(r, b) ==
    IF Len(b) # 0 /\ Len(b) > 1
    THEN FMul(FSub(FSub(FMean(SeriesValues(r)), RiskFreeRate),
                   FMul(Beta(r, b), FSub(FMean(SeriesValues(b)), RiskFreeRate))),
              Float(252))
    ELSE Float(0)

\* Line 157, as a token.
Volatility(r) == Token(FVar(SeriesValues(r)))

\* Line 160: (1 + aligned_returns).cumprod().
RECURSIVE FProd(_)
FProd(xs) == IF Len(xs) = 0 THEN Float(1) ELSE FMul(xs[1], FProd(Tail(xs)))

Cumulative(xs) ==
    [i \in 1..Len(xs) |-> FProd([j \in 1..i |-> FAdd(Float(1), xs[j])])]

\* The largest and the smallest of the values that are not NaN; NaN when
\* there is none.
FMax(xs) ==
    LET known == {i \in 1..Len(xs) : ~IsNaN(xs[i])}
    IN  IF known = {} THEN NaN
        ELSE xs[CHOOSE i \in known : \A j \in known : FLe(xs[j], xs[i])]

FMin(xs) ==
    LET known == {i \in 1..Len(xs) : ~IsNaN(xs[i])}
    IN  IF known = {} THEN NaN
        ELSE xs[CHOOSE i \in known : \A j \in known : FLe(xs[i], xs[j])]

\* Line 161: expanding(min_periods=1).max().
PeakIsFirst(c) == [i \in 1..Len(c) |-> c[1]]

Peak(c) == [i \in 1..Len(c) |-> FMax(SubSeq(c, 1, i))]

\* Line 162.
Drawdown(xs) ==
    LET c == Cumulative(xs)
        peak == Peak(c)
    IN  [i \in 1..Len(xs) |-> FDiv(FSub(c[i], peak[i]), peak[i])]

\* Lines 163-164.
MaxDrawdown(dd) == FMin(dd)

CurrentDrawdown(dd) == IF Len(dd) # 0 THEN dd[Len(dd)] ELSE Float(0)

\* Lines 169-178: the dict of the eight metrics.
MetricsDict(r, b) ==
    LET dd == Drawdown(SeriesValues(r))
    IN  PyDict(<<"sharpe_ratio", SharpeRatio(r),
                 "sortino_ratio", SortinoRatio(r),
                 "alpha_annualized", Token(Alpha(r, b)),
                 "beta", Token(Beta(r, b)),
                 "volatility_annualized", Volatility(r),
                 "max_drawdown", Token(Round(MaxDrawdown(dd), 4)),
                 "current_drawdown", Token(Round(CurrentDrawdown(dd), 4)),
                 "var_95_historical", Token(Quantile05(SeriesValues(r)))>>)

\* The text of a metrics dict, as one leaf of the snapshot.
RECURSIVE ItemsText(_)
ItemsText(items) ==
    IF Len(items) = 0 THEN ""
    ELSE items[1] \o ": " \o items[2]
         \o (IF Len(items) > 2 THEN ", " ELSE "") \o ItemsText(SubSeq(items, 3, Len(items)))

MetricsText(m) == "{" \o ItemsText(m.items) \o "}"

\* Line 212: the dict _fetch_alpaca_portfolio returns. The positions and
\* the bars are in it by their number.
Snapshot(partial, metrics) ==
    PyDict(partial.items \o <<"metrics", MetricsText(metrics)>>)

PartialSnapshot(account, positions, bars) ==
    PyDict(<<"account", account,
             "positions", ToString(Len(positions)),
             "bars", ToString(Cardinality(DOMAIN bars))>>)

\* ------------------------------------------------------------------- Init
\* Lines 25-36: one try block builds both clients, so a missing credential
\* of either leaves both None.
ClientsSetup(alpacaKeys, fredKey) ==
    /\ api = (alpacaKeys /\ fredKey)
    /\ fred = (alpacaKeys /\ fredKey)

NoDrawdowns == [max_drawdown |-> NaN, current_drawdown |-> NaN]

\* No portfolio fetch is under way.
EngineIdle ==
    /\ mpc = "idle"
    /\ snapshot = NoValue
    /\ positions_data = <<>>
    /\ bars_data = <<>>
    /\ portfolio_prices = NoFrame
    /\ portfolio_returns = NoSeries
    /\ spy_returns = NoSeries
    /\ aligned_returns = NoSeries
    /\ aligned_spy_returns = NoSeries
    /\ drawdowns = NoDrawdowns
    /\ advanced_metrics = NoValue
    /\ benchmark = ""

\* The state after the module is loaded, for a workload on the keys ks.
Loaded(ks) ==
    /\ now = 0
    /\ served = ks
    /\ \E alpacaKeys \in BOOLEAN, fredKey \in BOOLEAN : ClientsSetup(alpacaKeys, fredKey)
    /\ file = [k \in Keys |-> Absent]
    /\ pc = [p \in Procs |-> "idle"]
    /\ key = [p \in Procs |-> "alpaca_portfolio"]
    /\ fallback = [p \in Procs |-> TRUE]
    /\ file_mod_time = [p \in Procs |-> -1]
    /\ data = [p \in Procs |-> NoValue]
    /\ exc = [p \in Procs |-> ""]
    /\ result = [p \in Procs |-> NoResult]
    /\ fetchedAt = [p \in Procs |-> -1]
    /\ wroteAt = [p \in Procs |-> -1]
    /\ lastPut = [k \in Keys |-> NoValue]
    /\ recentFetchAt = [k \in Keys |-> -1]
    /\ EngineIdle

\* The requests of a run all name one key, either of the two.
Init == \E k \in Keys : Loaded({k})

\* ---------------------------------------------------------------- actions
\* The clock advances.
Tick ==
    /\ \E d \in TickSteps : now + d <= MaxNow /\ now' = now + d
    /\ recentFetchAt' = [k \in Keys |->
           IF recentFetchAt[k] >= 0 /\ now' - recentFetchAt[k] < CACHE_DURATION_SECONDS
           THEN recentFetchAt[k] ELSE -1]
    /\ UNCHANGED <<served, api, fred, file, pc, key, fallback, file_mod_time, data,
                   exc, result, fetchedAt, wroteAt, lastPut>>
    /\ UNCHANGED engine

\* The server is restarted while no request is being served: lines 25-36
\* run again with the credentials then in the environment, and the cache
\* directory keeps its files.
Restart ==
    /\ \A p \in Procs : pc[p] = "idle"
    /\ \E alpacaKeys \in BOOLEAN, fredKey \in BOOLEAN :
          /\ api' = (alpacaKeys /\ fredKey)
          /\ fred' = (alpacaKeys /\ fredKey)
    /\ UNCHANGED <<now, served, file, pc, key, fallback, file_mod_time, data,
                   exc, result, fetchedAt, wroteAt, lastPut, recentFetchAt>>
    /\ UNCHANGED engine

\* Lines 214-216 and 225-227: a request arrives and calls
\* _get_cached_or_fetch(cache_key, fetch_function, fallback).
Request(p, k, fb) ==
    /\ pc[p] = "idle"
    /\ k \in served
    /\ pc' = [pc EXCEPT ![p] = "l70"]
    /\ key' = [key EXCEPT ![p] = k]
    /\ fallback' = [fallback EXCEPT ![p] = fb]
    /\ UNCHANGED <<now, served, api, fred, file, file_mod_time, data, exc, result,
                   fetchedAt, wroteAt, lastPut, recentFetchAt>>
    /\ UNCHANGED engine

\* The same, when no other request is being served.
RequestAlone(p, k, fb) ==
    /\ \A q \in Procs : pc[q] = "idle"
    /\ Request(p, k, fb)

\* Line 70: os.path.exists(cache_path).
Exists(p) ==
    /\ pc[p] = "l70"
    /\ pc' = [pc EXCEPT ![p] = IF file[key[p]].exists THEN "l71" ELSE "l59"]
    /\ UNCHANGED <<now, served, api, fred, file, key, fallback, file_mod_time, data,
                   exc, result, fetchedAt, wroteAt, lastPut, recentFetchAt>>
    /\ UNCHANGED engine

\* Line 71: os.path.getmtime(cache_path).
GetMTime(p) ==
    /\ pc[p] = "l71"
    /\ file_mod_time' = [file_mod_time EXCEPT ![p] = file[key[p]].mtime]
    /\ pc' = [pc EXCEPT ![p] = "l72"]
    /\ UNCHANGED <<now, served, api, fred, file, key, fallback, data, exc, result,
                   fetchedAt, wroteAt, lastPut, recentFetchAt>>
    /\ UNCHANGED engine

\* Line 72: datetime.now() - file_mod_time < timedelta(seconds=...); the
\* local is dead after the comparison.
CheckFresh(p) ==
    /\ pc[p] = "l72"
    /\ pc' = [pc EXCEPT ![p] = IF IsFresh(now, file_mod_time[p]) THEN "l74" ELSE "l59"]
    /\ file_mod_time' = [file_mod_time EXCEPT ![p] = -1]
    /\ UNCHANGED <<now, served, api, fred, file, key, fallback, data, exc,
                   result, fetchedAt, wroteAt, lastPut, recentFetchAt>>
    /\ UNCHANGED engine

\* open(cache_path, 'r') and json.load(f): the value, or JSONDecodeError.
ReadFile(k) ==
    IF JsonValid(file[k].content)
    THEN Return(JsonLoad(file[k].content))
    ELSE Raise("JSONDecodeError")

\* Lines 73-75: the cache hit.
ReadHit(p) ==
    /\ pc[p] = "l74"
    /\ result' = [result EXCEPT ![p] = ReadFile(key[p])]
    /\ pc' = [pc EXCEPT ![p] = "done"]
    /\ UNCHANGED <<now, served, api, fred, file, key, fallback, file_mod_time, data, exc, fetchedAt,
                   wroteAt, lastPut, recentFetchAt>>
    /\ UNCHANGED engine

\* Lines 64-66 and 79: an exception in _fetch_and_cache is printed,
\* raised again and caught by _get_cached_or_fetch.
Caught(p, e) ==
    /\ exc' = [exc EXCEPT ![p] = e]
    /\ pc' = [pc EXCEPT ![p] = "l80"]

\* Lines 185-212 and 220-223: the fetch operation of the key. It raises
\* ConnectionError when its client is None, raises the upstream error when
\* the upstream call fails, and returns the data otherwise.
ClientOf(k) == IF k = "alpaca_portfolio" THEN api ELSE fred

FetchResults(k) == IF k = "alpaca_portfolio" THEN PortfolioResults ELSE FredResults

\* Line 59: data = fetch_function().
Fetch(p) ==
    /\ pc[p] = "l59"
    /\ fetchedAt' = [fetchedAt EXCEPT ![p] = now]
    /\ IF ~ClientOf(key[p])
       THEN Caught(p, "ConnectionError") /\ UNCHANGED data
       ELSE \/ Caught(p, "APIError") /\ UNCHANGED data
            \/ \E d \in FetchResults(key[p]) :
                  /\ data' = [data EXCEPT ![p] = d]
                  /\ pc' = [pc EXCEPT ![p] = "l61"]
                  /\ UNCHANGED exc
    /\ recentFetchAt' = [recentFetchAt EXCEPT ![key[p]] = now]
    /\ UNCHANGED <<now, served, api, fred, file, key, fallback, file_mod_time, result,
                   wroteAt, lastPut>>
    /\ UNCHANGED engine

\* Line 61: open(cache_path, 'w') creates or truncates the file, or fails
\* with OSError and leaves it alone.
OpenWrite(p) ==
    /\ pc[p] = "l61"
    /\ \/ /\ file' = [file EXCEPT ![key[p]] =
                         [exists |-> TRUE, mtime |-> MTimeOfWrite(p), content |-> <<>>]]
          /\ pc' = [pc EXCEPT ![p] = "l62"]
          /\ UNCHANGED exc
       \/ /\ Caught(p, "OSError")
          /\ UNCHANGED file
    /\ UNCHANGED <<now, served, api, fred, key, fallback, file_mod_time, data, result,
                   fetchedAt, wroteAt, lastPut, recentFetchAt>>
    /\ UNCHANGED engine

\* Lines 62-63 and 77-78: json.dump(data, f), the file is closed, the data
\* is returned; or the dump fails after n chunks (a value json cannot
\* encode, a full disk), the file keeps what was written and the exception
\* is raised.
Dump(p) ==
    /\ pc[p] = "l62"
    /\ \/ /\ file' = [file EXCEPT ![key[p]] =
                         [exists |-> TRUE, mtime |-> MTimeOfWrite(p),
                          content |-> JsonDump(data[p])]]
          /\ result' = [result EXCEPT ![p] = Return(PutReturns(data[p]))]
          /\ wroteAt' = [wroteAt EXCEPT ![p] = now]
          /\ lastPut' = [lastPut EXCEPT ![key[p]] = PutReturns(data[p])]
          /\ pc' = [pc EXCEPT ![p] = "done"]
          /\ UNCHANGED exc
       \/ \E n \in 0..(Len(JsonDump(data[p])) - 1) :
             /\ file' = [file EXCEPT ![key[p]] =
                            [exists |-> TRUE, mtime |-> MTimeOfWrite(p),
                             content |-> SubSeq(JsonDump(data[p]), 1, n)]]
             /\ Caught(p, "DumpError")
             /\ UNCHANGED <<result, wroteAt, lastPut>>
    /\ UNCHANGED <<now, served, api, fred, key, fallback, file_mod_time, data,
                   fetchedAt, recentFetchAt>>
    /\ UNCHANGED engine

\* Lines 80 and 84: the stale file is used if there is one, and the error
\* dict is returned otherwise.
FallbackCheck(p) ==
    /\ pc[p] = "l80"
    /\ IF UseFallback(fallback[p], file[key[p]].exists)
       THEN /\ pc' = [pc EXCEPT ![p] = "l82"]
            /\ UNCHANGED result
       ELSE /\ pc' = [pc EXCEPT ![p] = "done"]
            /\ result' = [result EXCEPT ![p] = Return(ErrorResult(key[p]))]
    /\ UNCHANGED <<now, served, api, fred, file, key, fallback, file_mod_time, data,
                   exc, fetchedAt, wroteAt, lastPut, recentFetchAt>>
    /\ UNCHANGED engine

\* Lines 81-83: the stale file is read.
ReadFallbackTouches(p) ==
    /\ pc[p] = "l82"
    /\ result' = [result EXCEPT ![p] = ReadFile(key[p])]
    /\ file' = [file EXCEPT ![key[p]].mtime = now]
    /\ pc' = [pc EXCEPT ![p] = "done"]
    /\ UNCHANGED <<now, served, api, fred, key, fallback, file_mod_time, data,
                   exc, fetchedAt, wroteAt, lastPut, recentFetchAt>>
    /\ UNCHANGED engine

ReadFallback(p) ==
    /\ pc[p] = "l82"
    /\ result' = [result EXCEPT ![p] = ReadFile(key[p])]
    /\ pc' = [pc EXCEPT ![p] = "done"]
    /\ UNCHANGED <<now, served, api, fred, file, key, fallback, file_mod_time, data,
                   exc, fetchedAt, wroteAt, lastPut, recentFetchAt>>
    /\ UNCHANGED engine

\* Lines 217-218 and 228-229: the response is sent and the request ends.
Respond(p) ==
    /\ pc[p] = "done"
    /\ pc' = [pc EXCEPT ![p] = "idle"]
    /\ key' = [key EXCEPT ![p] = "alpaca_portfolio"]
    /\ fallback' = [fallback EXCEPT ![p] = TRUE]
    /\ data' = [data EXCEPT ![p] = NoValue]
    /\ exc' = [exc EXCEPT ![p] = ""]
    /\ result' = [result EXCEPT ![p] = NoResult]
    /\ fetchedAt' = [fetchedAt EXCEPT ![p] = -1]
    /\ wroteAt' = [wroteAt EXCEPT ![p] = -1]
    /\ UNCHANGED <<now, served, api, fred, file, file_mod_time, lastPut, recentFetchAt>>
    /\ benchmark' = ""
    /\ UNCHANGED <<mpc, snapshot, positions_data, bars_data, portfolio_prices,
                   portfolio_returns, spy_returns, aligned_returns,
                   aligned_spy_returns, drawdowns, advanced_metrics>>

\* ------------------------------------- _fetch_alpaca_portfolio, step by step
\* The fetch operation of the portfolio route as the steps of one request:
\* the upstream calls, _calculate_advanced_metrics return statement by
\* return statement, and the dict of line 212.
ReturnLines == {"l92", "l104", "l112", "l133", "l178"}

\* The locals of _calculate_advanced_metrics that are dead.
Dropped ==
    /\ positions_data' = <<>>
    /\ bars_data' = <<>>
    /\ portfolio_prices' = NoFrame
    /\ portfolio_returns' = NoSeries
    /\ spy_returns' = NoSeries

\* return {} at the given line.
ReturnEmpty(line) ==
    /\ mpc' = line
    /\ advanced_metrics' = EmptyMetrics
    /\ Dropped
    /\ UNCHANGED <<snapshot, aligned_returns, aligned_spy_returns, drawdowns, benchmark>>

\* Lines 186-207: the client is None, or an upstream call raises, or the
\* account, the positions and their bars are there and line 210 calls
\* _calculate_advanced_metrics(positions_data, bars_data).
FetchPortfolioStart(p) ==
    /\ pc[p] = "l59"
    /\ key[p] = "alpaca_portfolio"
    /\ mpc = "idle"
    /\ fetchedAt' = [fetchedAt EXCEPT ![p] = now]
    /\ recentFetchAt' = [recentFetchAt EXCEPT ![key[p]] = now]
    /\ IF ~api
       THEN Caught(p, "ConnectionError") /\ UNCHANGED engine
       ELSE \/ Caught(p, "APIError") /\ UNCHANGED engine
            \/ \E account \in Vals, positions \in PositionsData :
                  \E bars \in BarsData(positions) :
                     /\ snapshot' = PartialSnapshot(account, positions, bars)
                     /\ positions_data' = positions
                     /\ bars_data' = bars
                     /\ mpc' = "l91"
                     /\ pc' = [pc EXCEPT ![p] = "l210"]
                     /\ UNCHANGED <<exc, portfolio_prices, portfolio_returns, spy_returns,
                                    aligned_returns, aligned_spy_returns, drawdowns,
                                    advanced_metrics, benchmark>>
    /\ UNCHANGED <<now, served, api, fred, file, key, fallback, file_mod_time, data,
                   result, wroteAt, lastPut>>

\* Lines 91-92.
CheckInputs(p) ==
    /\ pc[p] = "l210"
    /\ mpc = "l91"
    /\ IF Len(positions_data) = 0 \/ DOMAIN bars_data = {}
       THEN ReturnEmpty("l92")
       ELSE /\ mpc' = "l95"
            /\ UNCHANGED <<snapshot, positions_data, bars_data, portfolio_prices,
                           portfolio_returns, spy_returns, aligned_returns,
                           aligned_spy_returns, drawdowns, advanced_metrics, benchmark>>
    /\ UNCHANGED cache

\* Lines 95-104: the price matrix.
BuildPrices(p) ==
    /\ pc[p] = "l210"
    /\ mpc = "l95"
    /\ LET symbols == [i \in 1..Len(positions_data) |-> positions_data[i].symbol]
           frame == DropEmptyColumns(FFill(DataFrameOf(symbols, bars_data)))
       IN  IF IsEmpty(frame)
           THEN ReturnEmpty("l104")
           ELSE /\ portfolio_prices' = frame
                /\ mpc' = "l107"
                /\ UNCHANGED <<snapshot, positions_data, bars_data, portfolio_returns,
                               spy_returns, aligned_returns, aligned_spy_returns,
                               drawdowns, advanced_metrics, benchmark>>
    /\ UNCHANGED cache

\* Lines 107-117: the returns, the weights and the portfolio's returns.
Weights(p) ==
    /\ pc[p] = "l210"
    /\ mpc = "l107"
    /\ LET returns == DropNaRows(PctChange(portfolio_prices))
           market_values == MarketValuesOf(positions_data, returns.columns)
       IN  IF TotalMarketValue(market_values) = 0
           THEN ReturnEmpty("l112")
           ELSE /\ portfolio_returns' = PortfolioReturns(returns, market_values)
                /\ mpc' = "l120"
                /\ positions_data' = <<>>
                /\ bars_data' = <<>>
                /\ portfolio_prices' = NoFrame
                /\ UNCHANGED <<snapshot, spy_returns, aligned_returns, aligned_spy_returns,
                               drawdowns, advanced_metrics, benchmark>>
    /\ UNCHANGED cache

\* Lines 120-127: the bars of the benchmark; when api.get_bars raises, the
\* exception is caught and spy_returns is the empty series.
BenchmarkUnguarded(p) ==
    /\ pc[p] = "l210"
    /\ mpc = "l120"
    /\ \/ /\ Caught(p, "APIError")
          /\ mpc' = "idle"
          /\ snapshot' = NoValue
          /\ portfolio_returns' = NoSeries
          /\ benchmark' = "failed"
          /\ UNCHANGED spy_returns
       \/ \E spy_bars \in Histories :
             /\ spy_returns' = SpyReturns(spy_bars)
             /\ benchmark' = "fetched"
             /\ mpc' = "l130"
             /\ UNCHANGED <<pc, exc, snapshot, portfolio_returns>>
    /\ UNCHANGED <<positions_data, bars_data, portfolio_prices, aligned_returns,
                   aligned_spy_returns, drawdowns, advanced_metrics>>
    /\ UNCHANGED <<now, served, api, fred, file, key, fallback, file_mod_time, data,
                   result, fetchedAt, wroteAt, lastPut, recentFetchAt>>

Benchmark(p) ==
    /\ pc[p] = "l210"
    /\ mpc = "l120"
    /\ \/ /\ spy_returns' = NoSeries
          /\ benchmark' = "failed"
       \/ \E spy_bars \in Histories :
             /\ spy_returns' = SpyReturns(spy_bars)
             /\ benchmark' = "fetched"
    /\ mpc' = "l130"
    /\ UNCHANGED <<snapshot, positions_data, bars_data, portfolio_prices,
                   portfolio_returns, aligned_returns, aligned_spy_returns, drawdowns,
                   advanced_metrics>>
    /\ UNCHANGED cache

\* Lines 130-133: the inner join of the two return series.
Align(p) ==
    /\ pc[p] = "l210"
    /\ mpc = "l130"
    /\ LET aligned == AlignLeft(portfolio_returns, spy_returns)
       IN  IF Insufficient(aligned)
           THEN ReturnEmpty("l133")
           ELSE /\ aligned_returns' = aligned
                /\ aligned_spy_returns' = AlignRight(portfolio_returns, spy_returns)
                /\ mpc' = "l136"
                /\ portfolio_returns' = NoSeries
                /\ spy_returns' = NoSeries
                /\ UNCHANGED <<snapshot, positions_data, bars_data, portfolio_prices,
                               drawdowns, advanced_metrics, benchmark>>
    /\ UNCHANGED cache

\* Lines 136-178: the eight metrics.
Metrics(p) ==
    /\ pc[p] = "l210"
    /\ mpc = "l136"
    /\ LET dd == Drawdown(SeriesValues(aligned_returns))
       IN  drawdowns' = [max_drawdown |-> MaxDrawdown(dd),
                         current_drawdown |-> CurrentDrawdown(dd)]
    /\ advanced_metrics' = MetricsDict(aligned_returns, aligned_spy_returns)
    /\ mpc' = "l178"
    /\ UNCHANGED <<snapshot, positions_data, bars_data, portfolio_prices,
                   portfolio_returns, spy_returns, aligned_returns, aligned_spy_returns,
                   benchmark>>
    /\ UNCHANGED cache

\* Lines 210-212 and 59: _calculate_advanced_metrics has returned, and
\* _fetch_alpaca_portfolio returns the dict to line 59.
FetchPortfolioReturn(p) ==
    /\ pc[p] = "l210"
    /\ mpc \in ReturnLines
    /\ data' = [data EXCEPT ![p] = Snapshot(snapshot, advanced_metrics)]
    /\ pc' = [pc EXCEPT ![p] = "l61"]
    /\ mpc' = "idle"
    /\ snapshot' = NoValue
    /\ Dropped
    /\ aligned_returns' = NoSeries
    /\ aligned_spy_returns' = NoSeries
    /\ drawdowns' = NoDrawdowns
    /\ advanced_metrics' = NoValue
    /\ UNCHANGED benchmark
    /\ UNCHANGED <<now, served, api, fred, file, key, fallback, file_mod_time, exc,
                   result, fetchedAt, wroteAt, lastPut, recentFetchAt>>

\* A step of a request that has started.
Step(p) ==
    \/ Exists(p)
    \/ GetMTime(p)
    \/ CheckFresh(p)
    \/ ReadHit(p)
    \/ Fetch(p)
    \/ OpenWrite(p)
    \/ Dump(p)
    \/ FallbackCheck(p)
    \/ ReadFallback(p)
    \/ Respond(p)

\* Requests are served by concurrent threads.
Next ==
    \/ Tick
    \/ Restart
    \/ \E p \in Procs, k \in Keys, fb \in BOOLEAN : Request(p, k, fb)
    \/ \E p \in Procs : Step(p)

Spec == Init /\ [][Next]_vars

\* Requests are served one at a time.
NextSeq ==
    \/ Tick
    \/ Restart
    \/ \E p \in Procs, k \in Keys, fb \in BOOLEAN : RequestAlone(p, k, fb)
    \/ \E p \in Procs : Step(p)

SpecSeq == Init /\ [][NextSeq]_vars

\* The portfolio route alone, with its fetch operation step by step: the
\* module is loaded with the cache directory empty, or holding the file an
\* earlier run wrote one cache duration ago for an account without
\* positions; the requests are served one at a time.
StaleFile ==
    [exists |-> TRUE, mtime |-> 0,
     content |-> JsonDump(Snapshot(PartialSnapshot("1", <<>>, <<>>), EmptyMetrics))]

InitMetrics ==
    /\ \/ now = 0 /\ file = [k \in Keys |-> Absent]
       \/ /\ now = CACHE_DURATION_SECONDS
          /\ file = [k \in Keys |-> IF k = "alpaca_portfolio" THEN StaleFile ELSE Absent]
    /\ served = {"alpaca_portfolio"}
    /\ \E alpacaKeys \in BOOLEAN, fredKey \in BOOLEAN : ClientsSetup(alpacaKeys, fredKey)
    /\ pc = [p \in Procs |-> "idle"]
    /\ key = [p \in Procs |-> "alpaca_portfolio"]
    /\ fallback = [p \in Procs |-> TRUE]
    /\ file_mod_time = [p \in Procs |-> -1]
    /\ data = [p \in Procs |-> NoValue]
    /\ exc = [p \in Procs |-> ""]
    /\ result = [p \in Procs |-> NoResult]
    /\ fetchedAt = [p \in Procs |-> -1]
    /\ wroteAt = [p \in Procs |-> -1]
    /\ lastPut = [k \in Keys |-> NoValue]
    /\ recentFetchAt = [k \in Keys |-> -1]
    /\ EngineIdle

NextMetrics ==
    \/ \E p \in Procs : RequestAlone(p, "alpaca_portfolio", TRUE)
    \/ \E p \in Procs : Exists(p)
    \/ \E p \in Procs : GetMTime(p)
    \/ \E p \in Procs : CheckFresh(p)
    \/ \E p \in Procs : ReadHit(p)
    \/ \E p \in Procs : FetchPortfolioStart(p)
    \/ \E p \in Procs : CheckInputs(p)
    \/ \E p \in Procs : BuildPrices(p)
    \/ \E p \in Procs : Weights(p)
    \/ \E p \in Procs : Benchmark(p)
    \/ \E p \in Procs : Align(p)
    \/ \E p \in Procs : Metrics(p)
    \/ \E p \in Procs : FetchPortfolioReturn(p)
    \/ \E p \in Procs : OpenWrite(p)
    \/ \E p \in Procs : Dump(p)
    \/ \E p \in Procs : FallbackCheck(p)
    \/ \E p \in Procs : ReadFallback(p)
    \/ \E p \in Procs : Respond(p)

SpecMetrics == InitMetrics /\ [][NextMetrics]_vars

\* Lines 130-178 alone: a portfolio fetch is at line 130 with the returns of
\* the portfolio on the days 1..n and the returns of the benchmark on some
\* of these days.
ReturnValues == {Q(n, 4) : n \in {-5, -4, -2, 0, 1, 2}}
SpyReturnValues == {Q(-1, 4), Q(1, 4)}

ReturnSeries(n) == {[t \in 1..n |-> [t |-> t, v |-> vs[t]]] : vs \in [1..n -> ReturnValues]}

SpySeries(n) ==
    {SelectSeq([t \in 1..n |-> [t |-> t, v |-> vs[t]]], LAMBDA x : ~IsNaN(x.v)) :
       vs \in [1..n -> {NaN} \cup SpyReturnValues]}

InitReturns ==
    /\ now = 0
    /\ served = {"alpaca_portfolio"}
    /\ ClientsSetup(TRUE, TRUE)
    /\ file = [k \in Keys |-> Absent]
    /\ pc = [p \in Procs |-> IF p = "r1" THEN "l210" ELSE "idle"]
    /\ key = [p \in Procs |-> "alpaca_portfolio"]
    /\ fallback = [p \in Procs |-> TRUE]
    /\ file_mod_time = [p \in Procs |-> -1]
    /\ data = [p \in Procs |-> NoValue]
    /\ exc = [p \in Procs |-> ""]
    /\ result = [p \in Procs |-> NoResult]
    /\ fetchedAt = [p \in Procs |-> IF p = "r1" THEN 0 ELSE -1]
    /\ wroteAt = [p \in Procs |-> -1]
    /\ lastPut = [k \in Keys |-> NoValue]
    /\ recentFetchAt = [k \in Keys |-> IF k = "alpaca_portfolio" THEN 0 ELSE -1]
    /\ mpc = "l130"
    /\ snapshot = PyDict(<<"account", "1", "positions", "1", "bars", "1">>)
    /\ positions_data = <<>>
    /\ bars_data = <<>>
    /\ portfolio_prices = NoFrame
    /\ \E n \in 0..MaxDate :
          /\ portfolio_returns \in ReturnSeries(n)
          /\ spy_returns \in SpySeries(n)
    /\ aligned_returns = NoSeries
    /\ aligned_spy_returns = NoSeries
    /\ drawdowns = NoDrawdowns
    /\ advanced_metrics = NoValue
    /\ benchmark = "fetched"

NextReturns ==
    \/ \E p \in Procs : Align(p)
    \/ \E p \in Procs : Metrics(p)
    \/ \E p \in Procs : FetchPortfolioReturn(p)

SpecReturns == InitReturns /\ [][NextReturns]_vars

\* ------------------------------------------------- the claims: vocabulary
\* The cache file of the key request p names.
Entry(p) == file[key[p]]

\* The file holds a complete payload, and the payload it holds.
HasPayload(f) == f.exists /\ JsonValid(f.content)
Payload(f) == JsonLoad(f.content)

\* Request p has opened its cache file for writing.
Wrote(p) == pc[p] = "l62" \/ wroteAt[p] >= 0 \/ exc[p] = "DumpError"

\* The fetch operation of request p has raised.
FetchFailed(p) == exc[p] \in {"ConnectionError", "APIError"}

\* Request p has called its fetch operation.
Fetched(p) == fetchedAt[p] >= 0

\* A leaf of the value v is the exception e.
Carries(v, e) == \E i \in 1..Len(v.items) : v.items[i] = e

\* -------------------------------------------------------------------- C1
\* C1: while requests are served one at a time, a request whose key has an
\* entry with a complete payload that is less than CACHE_DURATION_SECONDS old
\* never calls the fetch operation, and what it returns is that payload.
C1_FreshEntryShortCircuits ==
    \A p \in Procs :
        (/\ pc[p] # "idle"
         /\ ~Wrote(p)
         /\ HasPayload(Entry(p))
         /\ now - Entry(p).mtime < CACHE_DURATION_SECONDS)
        => /\ ~Fetched(p)
           /\ pc[p] \in {"l70", "l71", "l72", "l74", "done"}
           /\ pc[p] = "done" => result[p] = Return(Payload(Entry(p)))

\* A request has answered from an entry that is one second short of the
\* cache duration.
C1_Witness ==
    \E p \in Procs :
        /\ pc[p] = "done"
        /\ ~Fetched(p)
        /\ HasPayload(Entry(p))
        /\ now - Entry(p).mtime = CACHE_DURATION_SECONDS - 1
        /\ result[p] = Return(Payload(Entry(p)))

\* -------------------------------------------------------------------- C2
\* C2: while requests are served one at a time, a request with fallback
\* enabled whose fetch operation raised and whose key has an entry with a
\* complete payload returns exactly that payload, and the response is not an
\* error.
C2_StaleFallbackReturnsEntry ==
    \A p \in Procs :
        (/\ pc[p] = "done"
         /\ fallback[p]
         /\ FetchFailed(p)
         /\ HasPayload(Entry(p)))
        => /\ result[p] = Return(Payload(Entry(p)))
           /\ HttpStatus(result[p]) = 200

\* A request has served an entry that was a full cache duration old when
\* its fetch operation raised.
C2_Witness ==
    \E p \in Procs :
        /\ pc[p] = "done"
        /\ fallback[p]
        /\ FetchFailed(p)
        /\ HasPayload(Entry(p))
        /\ fetchedAt[p] - Entry(p).mtime >= CACHE_DURATION_SECONDS
        /\ result[p] = Return(Payload(Entry(p)))

\* -------------------------------------------------------------------- C3
\* C3 as claimed: a request whose key has no entry and whose fetch operation
\* raised ends with an error result that carries the exception the fetch
\* operation raised.
C3_Original ==
    \A p \in Procs :
        (pc[p] = "done" /\ ~Entry(p).exists /\ FetchFailed(p))
        => /\ HttpStatus(result[p]) = 500
           /\ Carries(result[p].val, exc[p])

\* C3 as amended: such a request returns (it does not raise) the dict of
\* line 84, whose only entry is "error" with a message naming the key and
\* not the exception; the route answers it with 500, and answers every
\* other value a request returns (a fetched or a stored payload) with 200.
C3_NoDataReturnsErrorDict ==
    \A p \in Procs :
        /\ (pc[p] = "done" /\ ~Entry(p).exists /\ FetchFailed(p))
           => /\ result[p] = Return(PyDict(<<"error", ErrorMessage(key[p])>>))
              /\ HttpStatus(result[p]) = 500
              /\ ~Carries(result[p].val, exc[p])
        /\ (pc[p] = "done" /\ result[p].kind = "return")
           => (HttpStatus(result[p]) = 500
               <=> result[p].val = PyDict(<<"error", ErrorMessage(key[p])>>))

\* A request for a key without entry has ended after a failed fetch.
C3_Witness ==
    \E p \in Procs :
        /\ pc[p] = "done"
        /\ ~Entry(p).exists
        /\ exc[p] = "APIError"
        /\ result[p].kind = "return"

\* -------------------------------------------------------------------- C4
\* C4 as claimed: whenever the fetch operation of a key is called, no call
\* of it for that key was made in the CACHE_DURATION_SECONDS before.
C4_Original ==
    [][\A p \in Procs :
          (pc[p] = "l59" /\ pc'[p] # "l59") => recentFetchAt[key[p]] = -1]_vars

\* C4 as amended: while requests are served one at a time, the fetch
\* operation of a key is called only when the key's cache file is absent or
\* was last written at least CACHE_DURATION_SECONDS before the call.
C4_FetchOnlyWhenAbsentOrExpired ==
    \A p \in Procs :
        (Fetched(p) /\ ~Wrote(p))
        => \/ ~Entry(p).exists
           \/ fetchedAt[p] - Entry(p).mtime >= CACHE_DURATION_SECONDS

\* The fetch operation has been called for an entry exactly one cache
\* duration old.
C4_Witness ==
    \E p \in Procs :
        /\ Fetched(p)
        /\ ~Wrote(p)
        /\ Entry(p).exists
        /\ fetchedAt[p] - Entry(p).mtime = CACHE_DURATION_SECONDS

\* -------------------------------------------------------------------- C5
\* C5: while requests are served one at a time, a request that answers from
\* the cache without calling the fetch operation returns exactly the value
\* that the latest completed put of its key returned to its own caller.
C5_RoundTrip ==
    \A p \in Procs :
        (pc[p] = "done" /\ ~Fetched(p) /\ result[p].kind = "return")
        => /\ lastPut[key[p]] \in FetchResults(key[p])
           /\ result[p].val = lastPut[key[p]]

\* A request has answered from the cache what an earlier put had stored.
C5_Witness ==
    \E p \in Procs :
        /\ pc[p] = "done"
        /\ ~Fetched(p)
        /\ result[p] = Return(lastPut[key[p]])
        /\ Entry(p).content = JsonDump(lastPut[key[p]])

\* -------------------------------------------------------------------- C6
\* C6: while requests are served one at a time, a request whose fetch
\* operation succeeded with P and whose put completed returns P, and the
\* key's file then holds P with the time of the write as its modification
\* time, so that line 72 finds it fresh exactly until CACHE_DURATION_SECONDS
\* have passed since the write.
C6_SuccessfulFetchIsStored ==
    \A p \in Procs :
        (pc[p] = "done" /\ wroteAt[p] >= 0)
        => /\ data[p] \in FetchResults(key[p])
           /\ result[p] = Return(data[p])
           /\ HasPayload(Entry(p))
           /\ Payload(Entry(p)) = data[p]
           /\ Entry(p).mtime = wroteAt[p]
           /\ IsFresh(now, Entry(p).mtime)
                <=> now - wroteAt[p] < CACHE_DURATION_SECONDS

\* A request has stored what it fetched, and the new entry is in its last
\* fresh second.
C6_Witness ==
    \E p \in Procs :
        /\ pc[p] = "done"
        /\ wroteAt[p] >= 0
        /\ result[p] = Return(data[p])
        /\ now - wroteAt[p] = CACHE_DURATION_SECONDS - 1

\* -------------------------------------------------------------------- C7
\* C7 as claimed: whenever no put is under way for a key, the key's cache
\* file is absent or holds a complete payload.
C7_PutAllOrNothing ==
    \A k \in Keys :
        (\A p \in Procs : ~(pc[p] = "l62" /\ key[p] = k))
        => (~file[k].exists \/ JsonValid(file[k].content))

\* -------------------------------------------------------------------- C8
\* C8 as claimed: a request during which writing the cache file failed
\* (open or json.dump raised) ends by raising.
C8_StorageErrorsPropagate ==
    \A p \in Procs :
        (pc[p] = "done" /\ exc[p] \in {"OSError", "DumpError"})
        => result[p].kind = "raise"

\* -------------------------------------------------------------------- C9
\* C9: the modification time of a key's cache file never decreases, and the
\* file is never removed, whatever the interleaving of the requests.
C9_MTimeNeverDecreases ==
    [][\A k \in Keys :
          file[k].exists => /\ file'[k].exists
                            /\ file'[k].mtime >= file[k].mtime]_vars

\* Two requests of one key that were in flight together have both completed
\* a put, one later than the other.
C9_Witness ==
    \E p \in Procs, q \in Procs :
        /\ p # q
        /\ key[p] = key[q]
        /\ wroteAt[p] >= 0
        /\ wroteAt[q] > wroteAt[p]
        /\ Entry(q).mtime = wroteAt[q]

\* ------------------------------------------------------------------- C10
\* C10 as claimed: a request whose fetch operation raised ConnectionError
\* because its client is None is answered with 500.
C10_ConfigurationErrorIsFatal ==
    \A p \in Procs :
        (pc[p] = "done" /\ exc[p] = "ConnectionError")
        => HttpStatus(result[p]) = 500

\* ------------------------------------------------------------------- C15
\* C15 as claimed: a request that reads the cache file of its key while
\* another request of that key is between its open(cache_path, 'w') and the
\* end of its json.dump gets a complete payload.
C15_ReadsSeeCompletePayload ==
    [][\A p \in Procs :
          (/\ pc[p] \in {"l74", "l82"}
           /\ pc'[p] = "done"
           /\ \E q \in Procs \ {p} : key[q] = key[p] /\ pc[q] = "l62")
          => result'[p].kind = "return"]_vars

\* ------------------------------------------------------------------- C16
\* C16: whatever the interleaving, a step changes a cache file only if it is
\* the open or the json.dump of a request whose fetch operation returned
\* data, and then only the file of that request's key; so a request that
\* hits the cache or whose fetch operation raised leaves every file as it
\* was, payload and modification time. No step removes a file, and no file
\* ever holds the error dict of line 84.
C16_HitOrFailedFetchLeavesEntry ==
    [][/\ \A p \in Procs :
             pc'[p] # pc[p] =>
                \/ file' = file
                \/ /\ pc[p] \in {"l61", "l62"}
                   /\ data[p] \in FetchResults(key[p])
                   /\ ~FetchFailed(p)
                   /\ \A k \in Keys \ {key[p]} : file'[k] = file[k]
       /\ (\A p \in Procs : pc'[p] = pc[p]) => file' = file
       /\ \A k \in Keys :
             /\ file[k].exists => file'[k].exists
             /\ file'[k].content # JsonDump(ErrorResult(k))]_vars

\* A request has served the stale payload after its fetch operation raised,
\* and line 72 still finds the entry expired.
C16_Witness ==
    \E p \in Procs :
        /\ pc[p] = "done"
        /\ FetchFailed(p)
        /\ HasPayload(Entry(p))
        /\ result[p] = Return(Payload(Entry(p)))
        /\ ~IsFresh(now, Entry(p).mtime)

\* ------------------------------------------------------------------- C18
\* C18: whatever the interleaving, when the fetch operation of a request with
\* fallback false has raised, line 80 goes straight to line 84: the request
\* returns the error dict, which the route answers with 500, whether or not
\* the key has a cache file, and the step leaves every file as it was.
C18_NoFallbackReturnsErrorDict ==
    [][\A p \in Procs :
          (pc[p] = "l80" /\ pc'[p] # "l80" /\ ~fallback[p] /\ FetchFailed(p))
          => /\ pc'[p] = "done"
             /\ result'[p] = Return(ErrorResult(key[p]))
             /\ HttpStatus(result'[p]) = 500
             /\ file' = file]_vars

\* A request with fallback false has returned the error dict although its
\* key has a stale entry with a complete payload.
C18_Witness ==
    \E p \in Procs :
        /\ pc[p] = "done"
        /\ ~fallback[p]
        /\ FetchFailed(p)
        /\ HasPayload(Entry(p))
        /\ result[p] = Return(ErrorResult(key[p]))

\* ----------------------------------------- the claims on the metrics: words
\* The names of the eight metrics, and the value of one in a metrics dict.
MetricNames ==
    <<"sharpe_ratio", "sortino_ratio", "alpha_annualized", "beta",
      "volatility_annualized", "max_drawdown", "current_drawdown", "var_95_historical">>

Metric(m, name) ==
    m.items[(CHOOSE i \in 1..Len(m.items) : i % 2 = 1 /\ m.items[i] = name) + 1]

\* _calculate_advanced_metrics has returned.
Returned == mpc \in ReturnLines

\* The dict d is the one of line 212 and its metrics are the empty dict.
HasEmptyMetrics(d) ==
    /\ d.type = "dict"
    /\ Len(d.items) = 8
    /\ <<d.items[1], d.items[3], d.items[5], d.items[7]>>
          = <<"account", "positions", "bars", "metrics">>
    /\ d.items[8] = "{}"

\* ------------------------------------------------------------------- C11
\* C11 as claimed: what _calculate_advanced_metrics returns is the empty dict
\* or a dict of exactly the eight metrics in which every value is a number
\* (not NaN, not an infinity).
C11_EmptyOrEightNumbers ==
    Returned =>
        \/ advanced_metrics = EmptyMetrics
        \/ /\ Len(advanced_metrics.items) = 2 * Len(MetricNames)
           /\ \A i \in 1..Len(MetricNames) :
                 /\ advanced_metrics.items[2 * i - 1] = MetricNames[i]
                 /\ advanced_metrics.items[2 * i] \in {"0", "x"}

\* ------------------------------------------------------------------- C12
\* C12: each step of _calculate_advanced_metrics that meets an
\* insufficient-data condition returns the empty dict and raises nothing:
\* (i) at line 91, no positions or no bars, and at line 95, no symbol of the
\* positions with a bar; (ii) at line 107, a zero sum of the market values
\* of the positions whose symbol is a column of the price matrix; (iii) at
\* line 130, fewer than two days that are both in the portfolio's returns
\* and in the benchmark's.
C12_InsufficientDataReturnsEmpty ==
    [][\A p \in Procs :
          (/\ pc[p] = "l210"
           /\ mpc' # mpc
           /\ \/ /\ mpc = "l91"
                 /\ Len(positions_data) = 0 \/ DOMAIN bars_data = {}
              \/ /\ mpc = "l95"
                 /\ \A i \in 1..Len(positions_data) :
                       Get(bars_data, positions_data[i].symbol) = <<>>
              \/ /\ mpc = "l107"
                 /\ TotalMarketValue(SelectSeq(positions_data,
                        LAMBDA q : \E i \in 1..Len(portfolio_prices.columns) :
                                       portfolio_prices.columns[i] = q.symbol)) = 0
              \/ /\ mpc = "l130"
                 /\ Cardinality({x.t : x \in {portfolio_returns[i] : i \in 1..Len(portfolio_returns)}}
                                \cap {y.t : y \in {spy_returns[j] : j \in 1..Len(spy_returns)}}) < 2)
          => /\ mpc' \in ReturnLines
             /\ advanced_metrics' = EmptyMetrics
             /\ pc'[p] = "l210"
             /\ exc'[p] = ""]_vars

\* The calculation has returned at line 112, for an account with two
\* positions whose market values cancel.
C12_Witness ==
    /\ mpc = "l112"
    /\ advanced_metrics = EmptyMetrics
    /\ snapshot.items[4] = "2"

\* ------------------------------------------------------------------- C13
\* C13 as claimed: when fewer than two of the aligned returns are negative,
\* or the negative ones have a zero standard deviation, the sortino_ratio
\* of the metrics is 0.
C13_SortinoZeroWithoutDownside ==
    (/\ mpc = "l178"
     /\ \/ Len(DownsideReturns(aligned_returns)) < 2
        \/ ~FNeqZero(FVar(SeriesValues(DownsideReturns(aligned_returns)))))
    => Metric(advanced_metrics, "sortino_ratio") = "0"

\* ------------------------------------------------------------------- C14
\* C14 as claimed: the price matrix has a column for exactly the symbols of
\* the positions that have a bar, its index is the set of the days of all
\* bars, and the cell of a symbol on a day is the close of the symbol's
\* latest bar on or before that day, NaN when it has none.
C14_ForwardFillOnly ==
    mpc = "l107" =>
        /\ \A i \in 1..Len(positions_data) :
              (positions_data[i].symbol \in DOMAIN bars_data)
              <=> \E c \in 1..Len(portfolio_prices.columns) :
                     portfolio_prices.columns[c] = positions_data[i].symbol
        /\ {portfolio_prices.index[r] : r \in 1..Len(portfolio_prices.index)}
              = UNION {{bars_data[s][j].t : j \in 1..Len(bars_data[s])} : s \in DOMAIN bars_data}
        /\ \A c \in 1..Len(portfolio_prices.columns), r \in 1..Len(portfolio_prices.index) :
              LET hist == bars_data[portfolio_prices.columns[c]]
                  earlier == {j \in 1..Len(hist) : hist[j].t <= portfolio_prices.index[r]}
              IN  portfolio_prices.values[c][r] =
                     IF earlier = {} THEN NaN
                     ELSE Float(hist[CHOOSE j \in earlier : \A i \in earlier : hist[i].t <= hist[j].t].c)

\* ------------------------------------------------------------------- C17
\* C17: during a portfolio fetch, the step that fetches the benchmark
\* raises nothing, whether api.get_bars fails or not, and after a failure
\* _calculate_advanced_metrics returns the empty dict; when it returns the
\* empty dict, for whatever reason, _fetch_alpaca_portfolio returns the
\* account, the positions and the bars with "metrics": {} and the request
\* goes on to the put of line 61; and a request that has fetched such a
\* snapshot and completed its put returns it, the file holding it as a
\* fresh entry.
C17_EmptyMetricsNeverFailFetch ==
    [][\A p \in Procs :
          /\ (pc[p] = "l210" /\ mpc = "l120" /\ mpc' # mpc)
             => pc'[p] = "l210" /\ exc'[p] = ""
          /\ (pc[p] = "l210" /\ benchmark = "failed" /\ mpc' \in ReturnLines)
             => advanced_metrics' = EmptyMetrics
          /\ (pc[p] = "l210" /\ Returned /\ advanced_metrics = EmptyMetrics /\ pc'[p] # pc[p])
             => /\ pc'[p] = "l61"
                /\ ~FetchFailed(p)'
                /\ data'[p] = Snapshot(snapshot, EmptyMetrics)
                /\ HasEmptyMetrics(data'[p])
          /\ (pc'[p] = "done" /\ HasEmptyMetrics(data'[p]) /\ wroteAt'[p] >= 0)
             => /\ result'[p] = Return(data'[p])
                /\ HasPayload(Entry(p)')
                /\ Payload(Entry(p)') = data'[p]
                /\ IsFresh(now', Entry(p)'.mtime)]_vars

\* The benchmark's bars could not be fetched while a stale entry was there,
\* and the request has returned and stored the snapshot with empty metrics.
C17_Witness ==
    \E p \in Procs :
        /\ pc[p] = "done"
        /\ benchmark = "failed"
        /\ fetchedAt[p] = CACHE_DURATION_SECONDS
        /\ HasEmptyMetrics(data[p])
        /\ result[p] = Return(data[p])
        /\ Payload(Entry(p)) = data[p]
        /\ IsFresh(now, Entry(p).mtime)

\* ------------------------------------------------------------------- C19
\* C19: for aligned returns of length two or more that are all greater
\* than -1, max_drawdown <= current_drawdown <= 0, for the values computed
\* at lines 163-164 and for the rounded values of lines 175-176 alike, where
\* max_drawdown is the least and current_drawdown the last value of
\* (cumulative - peak) / peak.
C19_DrawdownOrder ==
    (/\ mpc = "l178"
     /\ Len(aligned_returns) >= 2
     /\ \A i \in 1..Len(aligned_returns) : FLt(Float(-1), aligned_returns[i].v))
    => LET r == SeriesValues(aligned_returns)
           c == Cumulative(r)
           dd == [t \in 1..Len(r) |-> FDiv(FSub(c[t], FMax(SubSeq(c, 1, t))), FMax(SubSeq(c, 1, t)))]
       IN  /\ drawdowns.current_drawdown = dd[Len(dd)]
           /\ \E t \in 1..Len(dd) : drawdowns.max_drawdown = dd[t]
           /\ \A t \in 1..Len(dd) : FLe(drawdowns.max_drawdown, dd[t])
           /\ FLe(drawdowns.max_drawdown, drawdowns.current_drawdown)
           /\ FLe(drawdowns.current_drawdown, Float(0))
           /\ FLe(Round(drawdowns.max_drawdown, 4), Round(drawdowns.current_drawdown, 4))
           /\ FLe(Round(drawdowns.current_drawdown, 4), Float(0))

\* Three returns above -1: a fall and a recovery of part of it, so that the
\* current drawdown is strictly between the maximum drawdown and 0.
C19_Witness ==
    /\ mpc = "l178"
    /\ Len(aligned_returns) = 3
    /\ \A i \in 1..Len(aligned_returns) : FLt(Float(-1), aligned_returns[i].v)
    /\ FLt(drawdowns.max_drawdown, drawdowns.current_drawdown)
    /\ FLt(drawdowns.current_drawdown, Float(0))

====
